---------------------------- MODULE Spec2Model ----------------------------
(***************************************************************************)
(* Referral bot: bot.py (aiogram handlers) over database.py (SQLite).      *)
(*                                                                         *)
(* Every handler is a coroutine; it runs without interruption between two  *)
(* awaits and may be interleaved with any other handler at an await.  Each *)
(* database.py function opens its own connection and commits, so one call  *)
(* is one atomic step of the store; the steps of two handlers interleave   *)
(* freely.  The coroutines in flight form the bag handlers: h.pc is the    *)
(* await a coroutine h is suspended at, its other fields are its locals.   *)
(***************************************************************************)
EXTENDS Integers, FiniteSets, Bags, TLC

\* ------------------------------------------------------------------ bounds
NumUsers == 4   \* Telegram accounts 1..NumUsers
NumProcs == 2   \* handler coroutines that may be in flight together
MaxLinks == 2   \* channel invite links Telegram hands out in one run
MaxUpdates == 4 \* updates (callback queries and chat_member updates) delivered in one run

\* ------------------------------------------------------- program constants
\* config.py (imported at bot.py line 10) sets them; it is not among the sources,
\* so the values are chosen here: the smallest threshold with a progress
\* notification before the grant, and two distinct chat ids.
REQUIRED_INVITES == 2
CHANNEL_ID == 100
GROUP_ID == 200

UserIds == 1..NumUsers
Links == 1..MaxLinks
Chats == {CHANNEL_ID, GROUP_ID}
\* aiogram ChatMemberStatus; "administrator" stands for every status that is
\* neither LEFT, KICKED nor MEMBER (creator, administrator, restricted).
Statuses == {"left", "kicked", "member", "administrator"}
\* Python's None where an id, a link or a count is expected (ids and links start at 1)
None == 0

\* The chat_member updates Telegram delivers.  invite_link is set only when the
\* user joined through an invite link; of the updates of the group, which the
\* handler drops unread, the joins stand for all.
Events ==
    {e \in [chat : Chats, user : UserIds, old_s : Statuses, new_s : Statuses,
            invite_link : Links \cup {None}] :
        /\ e.invite_link # None => (e.old_s \in {"left", "kicked"} /\ e.new_s = "member")
        /\ e.chat = GROUP_ID => (e.old_s = "left" /\ e.new_s = "member")}

VARIABLES
    users,      \* table users: user_id -> [invite_link, invited_count, completed]
    referrals,  \* table referrals: set of rows [referrer_id, referred_id]
    nextLink,   \* the next channel invite link Telegram will create
    updates,    \* the number of updates the dispatcher has handed to a handler
    handlers,   \* bag of the coroutines in flight: [pc, user, referrer_id, invite_url, added]
    sent,       \* per user: transport calls made on the user's behalf
    clean       \* TRUE while no two handlers overlapped and no transport call failed

vars == <<users, referrals, nextLink, updates, handlers, sent, clean>>

\* A coroutine suspended at the await pc, with its locals.
Handler(pc, user, referrer_id, invite_url, added) ==
    [pc |-> pc, user |-> user, referrer_id |-> referrer_id,
     invite_url |-> invite_url, added |-> added]

NoSent == [progress |-> 0, grant_links |-> 0, grant_msgs |-> 0]

\* ------------------------------------------------------------ database.py

\* get_user: the rows fetched by SELECT * FROM users WHERE user_id = ?
\* (one row, or none: Python's None)
get_user(tbl, user_id) ==
    IF user_id \in DOMAIN tbl THEN {tbl[user_id]} ELSE {}

\* get_user_by_invite_link: the user_id of the row holding the link, or None
get_user_by_invite_link(tbl, invite_link) ==
    IF \E u \in DOMAIN tbl : tbl[u].invite_link = invite_link
    THEN CHOOSE u \in DOMAIN tbl : tbl[u].invite_link = invite_link
    ELSE None

NewUserRow(invite_link) ==
    [invite_link |-> invite_link, invited_count |-> 0, completed |-> FALSE]

\* INSERT OR REPLACE: the conflicting rows are deleted and the new row inserted.
create_user_replace(tbl, user_id, invite_link) ==
    LET keep == {u \in DOMAIN tbl : u # user_id /\ tbl[u].invite_link # invite_link}
    IN  [u \in keep \cup {user_id} |->
            IF u = user_id THEN NewUserRow(invite_link) ELSE tbl[u]]

\* create_user: INSERT OR IGNORE; a conflict on user_id (PRIMARY KEY) or on
\* invite_link (UNIQUE) leaves the table as it was.
create_user(tbl, user_id, invite_link) ==
    IF \/ user_id \in DOMAIN tbl
       \/ \E u \in DOMAIN tbl : tbl[u].invite_link = invite_link
    THEN tbl
    ELSE [u \in DOMAIN tbl \cup {user_id} |->
            IF u = user_id THEN NewUserRow(invite_link) ELSE tbl[u]]

\* increment_invited_count, the UPDATE: invited_count = invited_count + 1
increment_invited_count(tbl, user_id) ==
    IF user_id \in DOMAIN tbl
    THEN [tbl EXCEPT ![user_id].invited_count = @ + 1]
    ELSE tbl

\* A SELECT of invited_count that runs before the UPDATE: the old count.
select_invited_count_stale(tbl, user_id) ==
    IF user_id \in DOMAIN tbl THEN tbl[user_id].invited_count - 1 ELSE 0

\* increment_invited_count, the SELECT that follows the commit
select_invited_count(tbl, user_id) ==
    IF user_id \in DOMAIN tbl THEN tbl[user_id].invited_count ELSE 0

\* An UPDATE ... SET completed = 1 WHERE user_id = ? without the completed = 0 test.
mark_completed_unconditional(tbl, user_id) ==
    user_id \in DOMAIN tbl

\* mark_completed: a row matches WHERE user_id = ? AND completed = 0
\* (rowcount > 0)
mark_completed(tbl, user_id) ==
    user_id \in DOMAIN tbl /\ ~tbl[user_id].completed

Edge(referrer_id, referred_id) ==
    [referrer_id |-> referrer_id, referred_id |-> referred_id]

\* add_referral: TRUE when the INSERT succeeds, FALSE on the IntegrityError
\* of UNIQUE(referrer_id, referred_id)
add_referral(tbl, referrer_id, referred_id) ==
    Edge(referrer_id, referred_id) \notin tbl

is_referral_counted_never(tbl, referrer_id, referred_id) == FALSE

\* is_referral_counted
is_referral_counted(tbl, referrer_id, referred_id) ==
    Edge(referrer_id, referred_id) \in tbl

\* ------------------------------------------------------------------ bot.py

\* on_chat_member_updated, lines 127-130
was_not_member(old_s) == old_s \in {"left", "kicked"}
is_now_member(new_s) == new_s = "member"

NeverSelf(member_id, referrer_id) == FALSE

\* on_chat_member_updated, line 140
IsSelfReferral(member_id, referrer_id) == member_id = referrer_id

BelowOrAtThreshold(new_count) == new_count <= REQUIRED_INVITES
BelowThresholdEarly(new_count) == new_count < REQUIRED_INVITES - 1
NotAtThreshold(new_count) == new_count # REQUIRED_INVITES

\* on_chat_member_updated, line 151
BelowThreshold(new_count) == new_count < REQUIRED_INVITES

Running == BagToSet(handlers)
Quiescent == handlers = EmptyBag

\* The accounts the state mentions: a row, an edge or a local of a coroutine.
Seen ==
    (DOMAIN users
        \cup {e.referred_id : e \in referrals}
        \cup {h.user : h \in Running}) \ {None}

\* The accounts an update may come from.  Telegram ids are opaque: an account
\* the state does not mention is interchangeable with any other such account,
\* so the lowest of them stands for all.
Accounts ==
    LET fresh == UserIds \ Seen
    IN  Seen \cup {u \in fresh : \A v \in fresh : u <= v}

\* The dispatcher hands the next update to a handler.
Dispatch ==
    /\ BagCardinality(handlers) < NumProcs
    /\ updates < MaxUpdates
    /\ updates' = updates + 1
    /\ clean' = (clean /\ Quiescent)

\* A new coroutine is suspended at its first await.
Start(h) == handlers' = handlers (+) SetToBag({h})

\* The coroutine h goes on to its next await, as h2.
Goto(h, h2) == handlers' = (handlers (-) SetToBag({h})) (+) SetToBag({h2})

\* The coroutine h returns.
Finish(h) == handlers' = handlers (-) SetToBag({h})

Init ==
    /\ users = << >>
    /\ referrals = {}
    /\ nextLink = 1
    /\ updates = 0
    /\ handlers = EmptyBag
    /\ sent = [u \in UserIds |-> NoSent]
    /\ clean = TRUE

\* --------------------------------------------------------- handle_get_link

\* handle_get_link up to the result of db.get_user (lines 57-61, 81)
HandleGetLink(user) ==
    /\ Dispatch
    /\ user \in Accounts
    /\ IF get_user(users, user) = {}
       THEN Start(Handler("create_chat_invite_link", user, None, None, FALSE))
       ELSE Start(Handler("answer", user, None, users[user].invite_link, FALSE))
    /\ UNCHANGED <<users, referrals, nextLink, sent>>

\* handle_get_link without the return of line 79: after a failed
\* create_chat_invite_link the handler goes on to answer, with no link.
CreateChannelLinkNoReturn(h) ==
    /\ h.pc = "create_chat_invite_link"
    /\ \/ /\ nextLink <= MaxLinks
          /\ nextLink' = nextLink + 1
          /\ Goto(h, [h EXCEPT !.pc = "create_user", !.invite_url = nextLink])
          /\ UNCHANGED clean
       \/ /\ Goto(h, [h EXCEPT !.pc = "answer"])
          /\ clean' = FALSE
          /\ UNCHANGED nextLink
    /\ UNCHANGED <<users, referrals, updates, sent>>

\* bot.create_chat_invite_link(CHANNEL_ID) (lines 63-68); it raises on a
\* transport failure (lines 76-79)
CreateChannelLink(h) ==
    /\ h.pc = "create_chat_invite_link"
    /\ \/ /\ nextLink <= MaxLinks
          /\ nextLink' = nextLink + 1
          /\ Goto(h, [h EXCEPT !.pc = "create_user", !.invite_url = nextLink])
          /\ UNCHANGED clean
       \/ /\ Finish(h)
          /\ clean' = FALSE
          /\ UNCHANGED nextLink
    /\ UNCHANGED <<users, referrals, updates, sent>>

\* db.create_user (lines 70-75)
CreateUser(h) ==
    /\ h.pc = "create_user"
    /\ users' = create_user(users, h.user, h.invite_url)
    /\ Goto(h, [h EXCEPT !.pc = "answer"])
    /\ UNCHANGED <<referrals, nextLink, updates, sent, clean>>

\* callback.message.answer with invite_url (lines 83-88)
AnswerLink(h) ==
    /\ h.pc = "answer"
    /\ Finish(h)
    /\ UNCHANGED <<users, referrals, nextLink, updates, sent, clean>>

\* -------------------------------------------------- on_chat_member_updated

\* on_chat_member_updated without the test of line 120.
OnChatMemberUpdatedAnyChat(event) ==
    /\ Dispatch
    /\ event.invite_link # None => event.invite_link < nextLink
    /\ IF /\ was_not_member(event.old_s)
          /\ is_now_member(event.new_s)
          /\ event.invite_link # None
       THEN Start(Handler("get_user_by_invite_link", event.user, None,
                          event.invite_link, FALSE))
       ELSE UNCHANGED handlers
    /\ event.user \in Accounts
    /\ UNCHANGED <<users, referrals, nextLink, sent>>

\* on_chat_member_updated up to its first await (lines 120-132): an update of
\* another chat, or one that is no join through an invite link, is dropped.
\* A user joins only through a link Telegram has created.
OnChatMemberUpdated(event) ==
    /\ Dispatch
    /\ event.invite_link # None => event.invite_link < nextLink
    /\ IF /\ event.chat = CHANNEL_ID
          /\ was_not_member(event.old_s)
          /\ is_now_member(event.new_s)
          /\ event.invite_link # None
       THEN Start(Handler("get_user_by_invite_link", event.user, None,
                          event.invite_link, FALSE))
       ELSE UNCHANGED handlers
    /\ event.user \in Accounts
    /\ UNCHANGED <<users, referrals, nextLink, sent>>

\* db.get_user_by_invite_link and the tests on its result (lines 132-141)
GetReferrer(h) ==
    /\ h.pc = "get_user_by_invite_link"
    /\ LET referrer == get_user_by_invite_link(users, h.invite_url) IN
       IF referrer = None \/ IsSelfReferral(h.user, referrer)
       THEN Finish(h)
       ELSE Goto(h, Handler("is_referral_counted", h.user, referrer, None, FALSE))
    /\ UNCHANGED <<users, referrals, nextLink, updates, sent, clean>>

\* db.is_referral_counted (lines 144-145)
IsReferralCounted(h) ==
    /\ h.pc = "is_referral_counted"
    /\ IF is_referral_counted(referrals, h.referrer_id, h.user)
       THEN Finish(h)
       ELSE Goto(h, [h EXCEPT !.pc = "add_referral"])
    /\ UNCHANGED <<users, referrals, nextLink, updates, sent, clean>>

\* db.add_referral (line 147); the handler drops its result
AddReferral(h) ==
    /\ h.pc = "add_referral"
    /\ LET ok == add_referral(referrals, h.referrer_id, h.user) IN
       /\ referrals' = referrals \cup {Edge(h.referrer_id, h.user)}
       /\ Goto(h, [h EXCEPT !.pc = "increment_invited_count", !.added = ok])
    /\ UNCHANGED <<users, nextLink, updates, sent, clean>>

\* db.increment_invited_count: UPDATE and commit (database.py lines 136-140);
\* from here on the handler uses referrer_id alone
IncrementInvitedCount(h) ==
    /\ h.pc = "increment_invited_count"
    /\ users' = increment_invited_count(users, h.referrer_id)
    /\ Goto(h, Handler("select_invited_count", None, h.referrer_id, None, FALSE))
    /\ UNCHANGED <<referrals, nextLink, updates, sent, clean>>

\* db.increment_invited_count: the SELECT (database.py lines 141-145), then
\* the branch on new_count (bot.py lines 148-158)
SelectInvitedCount(h) ==
    /\ h.pc = "select_invited_count"
    /\ LET new_count == select_invited_count(users, h.referrer_id) IN
       IF BelowThreshold(new_count)
       THEN Goto(h, [h EXCEPT !.pc = "send_progress"])
       ELSE Goto(h, [h EXCEPT !.pc = "grant_get_user"])
    /\ UNCHANGED <<users, referrals, nextLink, updates, sent, clean>>

\* bot.send_message with the progress (lines 152-156); a failure propagates
\* out of the handler
SendProgress(h) ==
    /\ h.pc = "send_progress"
    /\ Finish(h)
    /\ \/ /\ sent' = [sent EXCEPT ![h.referrer_id].progress = @ + 1]
          /\ UNCHANGED clean
       \/ /\ clean' = FALSE
          /\ UNCHANGED sent
    /\ UNCHANGED <<users, referrals, nextLink, updates>>

\* _grant_group_access: db.get_user and the early return (lines 162-164)
GrantGetUser(h) ==
    /\ h.pc = "grant_get_user"
    /\ LET user_data == get_user(users, h.referrer_id) IN
       IF user_data = {} \/ \E row \in user_data : row.completed
       THEN Finish(h)
       ELSE Goto(h, [h EXCEPT !.pc = "mark_completed"])
    /\ UNCHANGED <<users, referrals, nextLink, updates, sent, clean>>

\* _grant_group_access: db.mark_completed (line 166)
MarkCompleted(h) ==
    /\ h.pc = "mark_completed"
    /\ IF mark_completed(users, h.referrer_id)
       THEN /\ users' = [users EXCEPT ![h.referrer_id].completed = TRUE]
            /\ Goto(h, [h EXCEPT !.pc = "create_group_link"])
       ELSE /\ UNCHANGED users
            /\ Finish(h)
    /\ UNCHANGED <<referrals, nextLink, updates, sent, clean>>

\* _grant_group_access with an except branch that takes the completion back.
GrantAccessRollback(h) ==
    /\ h.pc = "create_group_link"
    /\ Finish(h)
    /\ \/ /\ sent' = [sent EXCEPT ![h.referrer_id].grant_links = @ + 1,
                                  ![h.referrer_id].grant_msgs = @ + 1]
          /\ UNCHANGED <<users, clean>>
       \/ /\ sent' = [sent EXCEPT ![h.referrer_id].grant_links = @ + 1]
          /\ users' = [users EXCEPT ![h.referrer_id].completed = FALSE]
          /\ clean' = FALSE
    /\ UNCHANGED <<referrals, nextLink, updates>>

\* _grant_group_access: bot.create_chat_invite_link(GROUP_ID), then
\* bot.send_message with the group link (lines 167-184); a failure of either
\* call is logged (lines 185-186) and the message is not sent
GrantAccess(h) ==
    /\ h.pc = "create_group_link"
    /\ Finish(h)
    /\ \/ /\ sent' = [sent EXCEPT ![h.referrer_id].grant_links = @ + 1,
                                  ![h.referrer_id].grant_msgs = @ + 1]
          /\ UNCHANGED clean
       \/ /\ sent' = [sent EXCEPT ![h.referrer_id].grant_links = @ + 1]
          /\ clean' = FALSE
    /\ UNCHANGED <<users, referrals, nextLink, updates>>

Next ==
    \/ \E user \in UserIds : HandleGetLink(user)
    \/ \E event \in Events : OnChatMemberUpdated(event)
    \/ \E h \in Running : CreateChannelLink(h)
    \/ \E h \in Running : CreateUser(h)
    \/ \E h \in Running : AnswerLink(h)
    \/ \E h \in Running : GetReferrer(h)
    \/ \E h \in Running : IsReferralCounted(h)
    \/ \E h \in Running : AddReferral(h)
    \/ \E h \in Running : IncrementInvitedCount(h)
    \/ \E h \in Running : SelectInvitedCount(h)
    \/ \E h \in Running : SendProgress(h)
    \/ \E h \in Running : GrantGetUser(h)
    \/ \E h \in Running : MarkCompleted(h)
    \/ \E h \in Running : GrantAccess(h)

Spec == Init /\ [][Next]_vars

TypeOK ==
    /\ DOMAIN users \subseteq UserIds
    /\ \A u \in DOMAIN users :
          /\ users[u].invite_link \in Links
          /\ users[u].invited_count \in Nat
          /\ users[u].completed \in BOOLEAN
    /\ referrals \subseteq [referrer_id : UserIds, referred_id : UserIds]
    /\ nextLink \in 1..(MaxLinks + 1)
    /\ updates \in 0..MaxUpdates
    /\ IsABag(handlers)
    /\ BagCardinality(handlers) <= NumProcs
    /\ clean \in BOOLEAN

\* ------------------------------------------------------------ the claims

Registered == DOMAIN users

\* The referral edges credited to referrer u.
EdgesOf(u) == {e \in referrals : e.referrer_id = u}
EdgeCount(u) == Cardinality(EdgesOf(u))

\* The coroutines in flight at the await pc on behalf of referrer u.
InFlightAt(pc, u) ==
    LET hs == {h \in Running : h.pc = pc /\ h.referrer_id = u}
    IN  BagCardinality([h \in hs |-> CopiesIn(h, handlers)])

Min(a, b) == IF a <= b THEN a ELSE b

\* A member of the channel leaves it or is removed from it.
IsLeave(old_s, new_s) == old_s = "member" /\ new_s \in {"left", "kicked"}

\* C1: whenever no join handler is in flight, invited_count(u) equals the
\* number of referral edges whose referrer_id is u, for every user u.
C1_CountEqualsEdges ==
    Quiescent => \A u \in Registered : users[u].invited_count = EdgeCount(u)

\* C2: of the handlers of one join event only the one whose insert of the edge
\* succeeded applies the credit: a handler whose add_referral was rejected by
\* the uniqueness constraint does not go on to increment invited_count, so the
\* counter never exceeds the number of edges by a duplicate delivery.
C2_OneHandlerApplies ==
    \A h \in Running : h.pc = "increment_invited_count" => h.added

\* C3: for every user the grant action (creating the group invite and sending
\* it) is started at most once, by the handler whose mark_completed flipped
\* completed, and it has been started exactly once when every handler has
\* returned and the counter is at or above the threshold.
C3_GrantExactlyOnce ==
    \A u \in UserIds :
        /\ sent[u].grant_links <= 1
        /\ sent[u].grant_msgs <= sent[u].grant_links
        /\ sent[u].grant_links + InFlightAt("create_group_link", u)
              = (IF u \in Registered /\ users[u].completed THEN 1 ELSE 0)
        /\ (Quiescent /\ u \in Registered /\ users[u].invited_count >= REQUIRED_INVITES)
              => sent[u].grant_links = 1

\* C3 witness: two handlers raced for the completion of one user; one has
\* flipped completed and is about to grant, the other is about to lose
\* mark_completed.
C3_Witness ==
    \E u \in Registered :
        /\ InFlightAt("create_group_link", u) = 1
        /\ InFlightAt("mark_completed", u) = 1

\* C4: no state shows an edge without its increment of invited_count, or an
\* increment without its edge: in every state, also while handlers are in
\* flight, invited_count(u) equals the number of edges of u.
C4_NoTornState ==
    \A u \in Registered : users[u].invited_count = EdgeCount(u)

\* C5: when join events are handled one after the other and no transport call
\* fails, then after n credits to a user invited_count is n, each of the first
\* REQUIRED_INVITES - 1 credits produced one progress notification and left
\* completed false, and the credit that reached REQUIRED_INVITES set completed
\* and produced exactly one grant message and no progress notification.
C5_SequentialThreshold ==
    (clean /\ Quiescent) =>
        \A u \in Registered :
            LET n == users[u].invited_count IN
            /\ n = EdgeCount(u)
            /\ users[u].completed = (n >= REQUIRED_INVITES)
            /\ sent[u].progress = Min(n, REQUIRED_INVITES - 1)
            /\ sent[u].grant_msgs = (IF n >= REQUIRED_INVITES THEN 1 ELSE 0)
            /\ sent[u].grant_links = sent[u].grant_msgs

\* C5 witness: REQUIRED_INVITES joins of distinct users were handled in sequence.
C5_Witness ==
    /\ clean
    /\ Quiescent
    /\ \E u \in Registered :
          /\ users[u].invited_count = REQUIRED_INVITES
          /\ EdgeCount(u) = REQUIRED_INVITES
          /\ users[u].completed
          /\ sent[u].progress = REQUIRED_INVITES - 1
          /\ sent[u].grant_msgs = 1

\* C6: no referral edge has referrer_id equal to referred_id, and no handler
\* of a join of the owner of the link gets past the self-referral test, so it
\* changes neither the edges nor a counter.
C6_NoSelfReferral ==
    /\ \A e \in referrals : e.referrer_id # e.referred_id
    /\ \A h \in Running : h.referrer_id # None => h.referrer_id # h.user

\* C6 witness: a user who holds a credited edge and a counter joins through
\* the user's own link; the handler is about to resolve the link.
C6_Witness ==
    \E h \in Running :
        /\ h.pc = "get_user_by_invite_link"
        /\ h.user \in Registered
        /\ users[h.user].invite_link = h.invite_url
        /\ users[h.user].invited_count > 0

\* C7: every user is the referred side of at most one referral edge.
C7_ReferredOnce ==
    \A b \in UserIds : Cardinality({e \in referrals : e.referred_id = b}) <= 1

\* C8: when a credited user leaves the monitored channel (member -> left or
\* kicked), every handler of an earlier update having returned, the edge is
\* deleted and invited_count of the referrer decreases by 1.
C8_LeaveRevokes ==
    [][\A event \in Events :
          (/\ Quiescent
           /\ event.chat = CHANNEL_ID
           /\ IsLeave(event.old_s, event.new_s)
           /\ OnChatMemberUpdated(event))
          => \A e \in referrals :
                e.referred_id = event.user =>
                    /\ e \notin referrals'
                    /\ users'[e.referrer_id].invited_count
                          = users[e.referrer_id].invited_count - 1]_vars

\* C9: a get-link handler shows the caller the invite token that is persisted
\* for the caller, also when two requests of an unregistered user run
\* concurrently.
C9_ShownTokenIsPersisted ==
    \A h \in Running :
        h.pc = "answer" =>
            /\ h.user \in Registered
            /\ users[h.user].invite_link = h.invite_url

\* C10: every persisted invite token resolves to exactly one user, no two
\* users hold the same token, and a user's token is never changed or removed.
C10_TokenPermanent ==
    /\ [](\A u, v \in Registered :
            users[u].invite_link = users[v].invite_link => u = v)
    /\ [](\A u \in Registered :
            get_user_by_invite_link(users, users[u].invite_link) = u)
    /\ [][\A u \in Registered :
            /\ u \in DOMAIN users'
            /\ users'[u].invite_link = users[u].invite_link]_vars

\* C10 witness: a second create_user for a user who holds a token was ignored;
\* the user still holds the first token.
C10_Witness ==
    \E h \in Running :
        /\ h.pc = "answer"
        /\ h.user \in Registered
        /\ users[h.user].invite_link # h.invite_url

\* C11: a transport failure never rolls back committed accounting.  After a
\* failed grant (the group invite was not created or not sent) completed is
\* still true; the step in which the grant fails changes neither a row of
\* users nor the edges; and the step in which the progress notification fails
\* leaves the new edge and the incremented invited_count in place.
C11_NoRollback ==
    /\ [](\A u \in UserIds :
            sent[u].grant_links > sent[u].grant_msgs =>
                u \in Registered /\ users[u].completed)
    /\ [][\A h \in Running :
            /\ (/\ GrantAccess(h)
                /\ sent'[h.referrer_id].grant_msgs = sent[h.referrer_id].grant_msgs)
               => /\ users' = users
                  /\ referrals' = referrals
                  /\ users'[h.referrer_id].completed
            /\ (SendProgress(h) /\ sent' = sent)
               => /\ users' = users
                  /\ referrals' = referrals
                  /\ users'[h.referrer_id].invited_count >= 1
                  /\ EdgesOf(h.referrer_id) # {}]_vars

\* C11 witness: every handler has returned; the grant of a user with
\* REQUIRED_INVITES credited edges failed and no progress notification was
\* delivered either, and the user is completed with the counter in place.
C11_Witness ==
    /\ Quiescent
    /\ \E u \in Registered :
          /\ sent[u].grant_links = 1
          /\ sent[u].grant_msgs = 0
          /\ sent[u].progress = 0
          /\ users[u].completed
          /\ users[u].invited_count = REQUIRED_INVITES
          /\ EdgeCount(u) = REQUIRED_INVITES

\* C12: when create_chat_invite_link fails during the first issuance for a
\* user, the handler returns in that step (the failure is shown with an alert
\* and nothing is retried), the store is unchanged and no message is sent; a
\* user row is created and a link is shown only with a link Telegram has
\* created; and the next get-link request of a user without a row starts a
\* fresh attempt at create_chat_invite_link.
C12_IssuanceFailure ==
    /\ [](\A h \in Running :
            h.pc \in {"create_user", "answer"} =>
                h.invite_url \in Links /\ h.invite_url < nextLink)
    /\ [](\A u \in Registered : users[u].invite_link < nextLink)
    /\ [][\A h \in Running :
            (CreateChannelLink(h) /\ nextLink' = nextLink)
            => /\ users' = users
               /\ referrals' = referrals
               /\ sent' = sent
               /\ handlers' = handlers (-) SetToBag({h})]_vars
    /\ [][\A user \in UserIds :
            (HandleGetLink(user) /\ user \notin Registered)
            => handlers' = handlers (+)
                  SetToBag({Handler("create_chat_invite_link", user, None, None, FALSE)})]_vars

\* C12 witness: the one update delivered so far was a get-link request whose
\* link creation failed: the handler has returned and the store is empty.
C12_Witness ==
    /\ Quiescent
    /\ ~clean
    /\ updates = 1
    /\ users = << >>
    /\ nextLink = 1

\* C13: a chat_member update that is no attributable join changes no row and
\* no edge and sends no message.  An update of another chat, one whose old
\* status is neither left nor kicked, one whose new status is not member, and
\* a join without invite link are dropped before the first await: a step that
\* takes an update and changes a row, an edge, a sent message or the handlers
\* in flight is the step of no such update.  A join whose link resolves to no
\* registered user is dropped after the lookup.
C13_NonAttributableIgnored ==
    [][/\ \/ updates' = updates
          \/ /\ users' = users
             /\ referrals' = referrals
             /\ sent' = sent
             /\ handlers' = handlers
          \/ \A event \in Events :
                (\/ event.chat # CHANNEL_ID
                 \/ event.old_s \notin {"left", "kicked"}
                 \/ event.new_s # "member"
                 \/ event.invite_link = None)
                => ~OnChatMemberUpdated(event)
       /\ \A h \in Running :
            (/\ h.pc = "get_user_by_invite_link"
             /\ \A u \in Registered : users[u].invite_link # h.invite_url
             /\ GetReferrer(h))
            => /\ users' = users
               /\ referrals' = referrals
               /\ sent' = sent
               /\ handlers' = handlers (-) SetToBag({h})]_vars

\* C13 witness: a user joined the channel through a link Telegram created
\* that no registered user holds; the handler is about to look it up.
C13_Witness ==
    \E h \in Running :
        /\ h.pc = "get_user_by_invite_link"
        /\ Registered # {}
        /\ \A u \in Registered : users[u].invite_link # h.invite_url

\* C15: sequential replay is idempotent.  Edges are never removed, so a join
\* of the pair (a, b) handled after the edge (a, b) was stored finds it: the
\* handler returns at is_referral_counted and that step changes no edge, no
\* invited_count, no completed flag and sends nothing; and as long as handlers
\* have not overlapped, no handler gets to add_referral for an edge that exists.
C15_ReplayIdempotent ==
    /\ [][referrals \subseteq referrals']_vars
    /\ [][\A h \in Running :
            (/\ h.pc = "is_referral_counted"
             /\ Edge(h.referrer_id, h.user) \in referrals
             /\ IsReferralCounted(h))
            => /\ users' = users
               /\ referrals' = referrals
               /\ sent' = sent
               /\ handlers' = handlers (-) SetToBag({h})]_vars
    /\ [](clean =>
            \A h \in Running :
                h.pc \in {"add_referral", "increment_invited_count"} =>
                    (Edge(h.referrer_id, h.user) \in referrals)
                        = (h.pc = "increment_invited_count"))

\* C15 witness: the join of a credited pair is delivered again after its first
\* handling has returned; the only handler in flight is about to find the edge.
C15_Witness ==
    /\ clean
    /\ BagCardinality(handlers) = 1
    /\ \E h \in Running :
          /\ h.pc = "is_referral_counted"
          /\ Edge(h.referrer_id, h.user) \in referrals
          /\ users[h.referrer_id].invited_count = 1

\* C16: completion is terminal.  Once completed(u) is true it stays true; from
\* then on no handler arrives at the progress notification or at the grant for
\* u; and a join credited to u still adds its edge and increments
\* invited_count(u).
C16_CompletionTerminal ==
    /\ [][\A u \in Registered :
            users[u].completed =>
                /\ u \in DOMAIN users'
                /\ users'[u].completed
                /\ InFlightAt("send_progress", u)' <= InFlightAt("send_progress", u)
                /\ InFlightAt("create_group_link", u)' <= InFlightAt("create_group_link", u)
                /\ sent'[u].grant_links <= 1]_vars
    /\ [][\A h \in Running :
            /\ (h.pc = "add_referral" /\ AddReferral(h))
               => Edge(h.referrer_id, h.user) \in referrals'
            /\ (h.pc = "increment_invited_count" /\ IncrementInvitedCount(h))
               => users'[h.referrer_id].invited_count
                     = users[h.referrer_id].invited_count + 1]_vars

\* C16 witness: a completed user was credited one more join of a new user:
\* the edge is stored, the counter is REQUIRED_INVITES + 1, and the handler is
\* about to return from _grant_group_access on completed.
C16_Witness ==
    \E h \in Running :
        /\ h.pc = "grant_get_user"
        /\ users[h.referrer_id].completed
        /\ users[h.referrer_id].invited_count = REQUIRED_INVITES + 1
        /\ EdgeCount(h.referrer_id) = REQUIRED_INVITES + 1
        /\ sent[h.referrer_id].grant_links = 1

\* C17: a completed user has at least REQUIRED_INVITES distinct referral edges.
C17_CompletedHasEdges ==
    \A u \in Registered : users[u].completed => EdgeCount(u) >= REQUIRED_INVITES

\* C18: a completed user has invited_count >= REQUIRED_INVITES: a handler is in
\* _grant_group_access only for a user whose counter is at or above the
\* threshold, and no counter ever decreases.
C18_CompletedCountAtThreshold ==
    /\ [](\A u \in Registered :
            users[u].completed => users[u].invited_count >= REQUIRED_INVITES)
    /\ [](\A h \in Running :
            h.pc \in {"grant_get_user", "mark_completed", "create_group_link"} =>
                users[h.referrer_id].invited_count >= REQUIRED_INVITES)
    /\ [][\A u \in Registered :
            /\ u \in DOMAIN users'
            /\ users'[u].invited_count >= users[u].invited_count]_vars

\* C18 witness: a handler that read the counter at REQUIRED_INVITES is about
\* to call mark_completed for a user who is not completed yet.
C18_Witness ==
    \E h \in Running :
        /\ h.pc = "mark_completed"
        /\ ~users[h.referrer_id].completed
        /\ users[h.referrer_id].invited_count = REQUIRED_INVITES

\* C19: no threshold crossing is missed.  A user whose invited_count is at or
\* above REQUIRED_INVITES is completed, or a handler that will read the counter
\* or is in _grant_group_access for the user is still in flight; so when every
\* handler has returned, invited_count(u) >= REQUIRED_INVITES implies
\* completed(u).
C19_NoMissedCrossing ==
    \A u \in Registered :
        users[u].invited_count >= REQUIRED_INVITES =>
            \/ users[u].completed
            \/ \E h \in Running :
                  /\ h.referrer_id = u
                  /\ h.pc \in {"select_invited_count", "grant_get_user", "mark_completed"}

\* C19 witness: two joins of distinct users were credited to one referrer
\* concurrently: both handlers have incremented the counter, to
\* REQUIRED_INVITES, before either has read it.
C19_Witness ==
    \E u \in Registered :
        /\ InFlightAt("select_invited_count", u) = 2
        /\ users[u].invited_count = REQUIRED_INVITES
        /\ EdgeCount(u) = 2
        /\ ~users[u].completed

\* C20: a failed grant is never retried.  Once the grant of a user has failed
\* (the group invite was not created or not sent), no later step sends the
\* user a grant message or starts another grant, and no handler is at the
\* grant for the user.
C20_FailedGrantNotRetried ==
    /\ [][\A u \in UserIds :
            sent[u].grant_links > sent[u].grant_msgs =>
                /\ sent'[u].grant_msgs = sent[u].grant_msgs
                /\ sent'[u].grant_links = sent[u].grant_links]_vars
    /\ [](\A u \in UserIds :
            sent[u].grant_links > sent[u].grant_msgs =>
                InFlightAt("create_group_link", u) = 0)

\* C20 witness: after the grant of a user failed, a further join was credited
\* to the user; its handler is about to return from _grant_group_access on
\* completed.
C20_Witness ==
    \E h \in Running :
        /\ h.pc = "grant_get_user"
        /\ sent[h.referrer_id].grant_links = 1
        /\ sent[h.referrer_id].grant_msgs = 0
        /\ users[h.referrer_id].completed

=============================================================================
